---- MODULE Spec2Model ----
(***************************************************************************)
(* Model of ruthyankson/adaptive-health-ai:                                *)
(*   - pin_env_versions.py : the environment pinner (pure helpers + main)  *)
(*   - src/read_data.py    : the data loader                               *)
(* A Python str is a sequence of one-character strings; None is modelled   *)
(* by the option record NoneV, a present value v by Some(v).               *)
(***************************************************************************)
EXTENDS Integers, Sequences, FiniteSets, TLC

VARIABLES
    call, ret,                                   \* a call of a pure helper
    pc, args, data, env_name, conda_pkgs, pip_pkgs, pinned_deps,
    fs, cmds, exit_code, error, freeze_failed,   \* a run of the pinner
    lpc, data_file, meta_dir, columns_csv, df, labels_map, lerror, fs0  \* the loader

fnvars == <<call, ret>>
pinvars == <<pc, args, data, env_name, conda_pkgs, pip_pkgs, pinned_deps,
             fs, cmds, exit_code, error, freeze_failed>>
loadvars == <<lpc, data_file, meta_dir, columns_csv, df, labels_map, lerror, fs0>>
vars == <<fnvars, pinvars, loadvars>>

(***************************************************************************)
(* Bounds of the model.                                                    *)
(***************************************************************************)
MaxDeps == 2      \* longest dependency / pip list drawn
MaxNameLen == 4   \* longest raw name handed to normalize_name

(***************************************************************************)
(* Python values.                                                          *)
(***************************************************************************)
NoneV == [some |-> FALSE, v |-> <<>>]
Some(x) == [some |-> TRUE, v |-> x]
\* Python truthiness of an Optional[str]: None and "" are falsy.
Truthy(o) == o.some /\ o.v # <<>>

\* A YAML list entry: a str, a mapping holding a `pip` list, or anything else.
Str(s) == [t |-> "str", s |-> s, pip |-> <<>>]
PipDict(l) == [t |-> "pipdict", s |-> <<>>, pip |-> l]
Other == [t |-> "other", s |-> <<>>, pip |-> <<>>]
IsStr(item) == item.t = "str"

EmptyMap == <<>>
\* dict.get(k)
Get(m, k) == IF k \in DOMAIN m THEN Some(m[k]) ELSE NoneV

(***************************************************************************)
(* str primitives: lower, strip, `in`, startswith, split(sep, 1).          *)
(***************************************************************************)
UPPER == <<"A","B","C","D","E","F","G","H","I","J","K","L","M",
           "N","O","P","Q","R","S","T","U","V","W","X","Y","Z">>
LOWER == <<"a","b","c","d","e","f","g","h","i","j","k","l","m",
           "n","o","p","q","r","s","t","u","v","w","x","y","z">>
DIGITS == {"0","1","2","3","4","5","6","7","8","9"}
UpperSet == {UPPER[i] : i \in 1..Len(UPPER)}
LowerSet == {LOWER[i] : i \in 1..Len(LOWER)}
Whitespace == {" ", "\t"}
Separators == {"-", "_", "."}

LowerChar(c) ==
    IF c \in UpperSet THEN LOWER[CHOOSE i \in 1..Len(UPPER) : UPPER[i] = c] ELSE c
\* str.lower()
Lower(s) == [i \in 1..Len(s) |-> LowerChar(s[i])]

\* the character class [A-Za-z0-9_.-]
IsNameChar(c) == c \in UpperSet \cup LowerSet \cup DIGITS \cup Separators

RECURSIVE LStrip(_)
LStrip(s) == IF s # <<>> /\ Head(s) \in Whitespace THEN LStrip(Tail(s)) ELSE s
RECURSIVE RStrip(_)
RStrip(s) ==
    IF s # <<>> /\ s[Len(s)] \in Whitespace THEN RStrip(SubSeq(s, 1, Len(s) - 1)) ELSE s
\* str.strip()
Strip(s) == RStrip(LStrip(s))

\* s[i:].startswith(pat), i counted from 1
MatchAt(s, pat, i) ==
    /\ i + Len(pat) - 1 <= Len(s)
    /\ \A k \in 1..Len(pat) : s[i + k - 1] = pat[k]
StartsWith(s, pat) == MatchAt(s, pat, 1)
\* pat in s
Contains(s, pat) == \E i \in 1..Len(s) : MatchAt(s, pat, i)
\* s.find(pat) + 1: the first place pat occurs, 0 when it does not
Find(s, pat) ==
    IF Contains(s, pat)
    THEN CHOOSE i \in 1..Len(s) :
            MatchAt(s, pat, i) /\ \A j \in 1..(i - 1) : ~MatchAt(s, pat, j)
    ELSE 0
\* s.split(pat, 1) for a pat that occurs in s
SplitOnce(s, pat) ==
    LET i == Find(s, pat)
    IN <<SubSeq(s, 1, i - 1), SubSeq(s, i + Len(pat), Len(s))>>

\* re.match(r"^([A-Za-z0-9_.-]+)", s).group(1), <<>> when there is no match
RECURSIVE NamePrefix(_)
NamePrefix(s) ==
    IF s # <<>> /\ IsNameChar(Head(s)) THEN <<Head(s)>> \o NamePrefix(Tail(s)) ELSE <<>>

COLONS == <<":", ":">>
EQEQ == <<"=", "=">>
AT == <<"@">>
EDITABLE == <<"-", "e", " ">>
PYTHON == <<"p","y","t","h","o","n">>

(***************************************************************************)
(* normalize_name: re.sub(r"[-_.]+", "-", name.strip().lower())            *)
(***************************************************************************)
RECURSIVE CollapseRuns(_)
CollapseRuns(s) ==
    IF s = <<>> THEN <<>>
    ELSE IF Head(s) \in Separators
         THEN IF Len(s) > 1 /\ s[2] \in Separators
              THEN CollapseRuns(Tail(s))
              ELSE <<"-">> \o CollapseRuns(Tail(s))
         ELSE <<Head(s)>> \o CollapseRuns(Tail(s))

\* A slip: separators mapped to "-" and then one pass of replace("--", "-").
RECURSIVE ReplacePairs(_)
ReplacePairs(s) ==
    IF Len(s) < 2 THEN s
    ELSE IF s[1] = "-" /\ s[2] = "-"
         THEN <<"-">> \o ReplacePairs(SubSeq(s, 3, Len(s)))
         ELSE <<Head(s)>> \o ReplacePairs(Tail(s))
normalize_name_pairs(name) ==
    LET low == Lower(Strip(name))
    IN ReplacePairs([i \in 1..Len(low) |-> IF low[i] \in Separators THEN "-" ELSE low[i]])

normalize_name(name) == CollapseRuns(Lower(Strip(name)))

(***************************************************************************)
(* parse_conda_dep                                                         *)
(***************************************************************************)
parse_conda_dep(dep0) ==
    LET dep1 == Strip(dep0)
        has == Contains(dep1, COLONS)
        channel == IF has THEN Some(SplitOnce(dep1, COLONS)[1]) ELSE NoneV
        dep == IF has THEN SplitOnce(dep1, COLONS)[2] ELSE dep1
        m == NamePrefix(dep)
    IN IF m = <<>> THEN [channel |-> channel, name |-> dep]
       ELSE [channel |-> channel, name |-> m]

(***************************************************************************)
(* pin_conda_deps                                                          *)
(***************************************************************************)
\* A slip: the lowercased lookup key written out in place of the name as given.
pin_conda_item_lc(item, pkgs, keep_python_unpinned) ==
    IF ~IsStr(item) THEN item
    ELSE LET p == parse_conda_dep(item.s)
             name_lc == Lower(p.name)
             ver == Get(pkgs, name_lc)
         IN IF keep_python_unpinned /\ name_lc = PYTHON
            THEN Str(IF Truthy(p.channel) THEN p.channel.v \o COLONS \o PYTHON ELSE PYTHON)
            ELSE IF ~Truthy(ver) THEN item
            ELSE Str((IF Truthy(p.channel) THEN p.channel.v \o COLONS ELSE <<>>)
                     \o name_lc \o <<"=">> \o ver.v)

\* A slip: the stripped text kept for an entry that is not found.
pin_conda_item_strip(item, pkgs, keep_python_unpinned) ==
    IF ~IsStr(item) THEN item
    ELSE LET p == parse_conda_dep(item.s)
             name_lc == Lower(p.name)
             ver == Get(pkgs, name_lc)
         IN IF keep_python_unpinned /\ name_lc = PYTHON
            THEN Str(IF Truthy(p.channel) THEN p.channel.v \o COLONS \o PYTHON ELSE PYTHON)
            ELSE IF ~Truthy(ver) THEN Str(Strip(item.s))
            ELSE Str((IF Truthy(p.channel) THEN p.channel.v \o COLONS ELSE <<>>)
                     \o p.name \o <<"=">> \o ver.v)

pin_conda_item(item, pkgs, keep_python_unpinned) ==
    IF ~IsStr(item) THEN item
    ELSE LET p == parse_conda_dep(item.s)
             name_lc == Lower(p.name)
             ver == Get(pkgs, name_lc)
         IN IF keep_python_unpinned /\ name_lc = PYTHON
            THEN Str(IF Truthy(p.channel) THEN p.channel.v \o COLONS \o PYTHON ELSE PYTHON)
            ELSE IF ~Truthy(ver) THEN item
            ELSE Str((IF Truthy(p.channel) THEN p.channel.v \o COLONS ELSE <<>>)
                     \o p.name \o <<"=">> \o ver.v)

pin_conda_deps(deps, pkgs, keep_python_unpinned) ==
    [i \in 1..Len(deps) |-> pin_conda_item(deps[i], pkgs, keep_python_unpinned)]

(***************************************************************************)
(* extract_pip_name, pin_pip_deps                                          *)
(***************************************************************************)
extract_pip_name(spec) ==
    LET s == Strip(spec)
        g1 == NamePrefix(s)
        rest == SubSeq(s, Len(g1) + 1, Len(s))
        \* ^([A-Za-z0-9_.-]+)(\[.*\])?$
        full == /\ g1 # <<>>
                /\ \/ rest = <<>>
                   \/ Len(rest) >= 2 /\ rest[1] = "[" /\ rest[Len(rest)] = "]"
    IN IF ~full
       THEN [base |-> normalize_name(IF g1 # <<>> THEN g1 ELSE s), extras |-> <<>>]
       ELSE [base |-> normalize_name(g1), extras |-> rest]

pin_pip_item(item, pkgs) ==
    IF ~IsStr(item) THEN item
    ELSE LET s == Strip(item.s)
         IN IF Contains(s, EQEQ) \/ Contains(s, AT) \/ StartsWith(s, EDITABLE)
            THEN Str(s)
            ELSE LET e == extract_pip_name(s)
                     ver == Get(pkgs, e.base)
                 IN IF Truthy(ver)
                    THEN IF e.extras # <<>>
                         THEN Str(s \o (IF ~Contains(s, EQEQ) THEN EQEQ ELSE <<>>) \o ver.v)
                         ELSE Str(s \o EQEQ \o ver.v)
                    ELSE Str(s)

pin_pip_deps(pip_list, pkgs) ==
    [i \in 1..Len(pip_list) |-> pin_pip_item(pip_list[i], pkgs)]

(***************************************************************************)
(* Inputs of the pure helpers.                                             *)
(***************************************************************************)
S_np == <<"n","p">>
S_zz == <<"z","z">>
S_a_b == <<"a","-","b">>
S_rq == <<"r","q">>
V_1_2 == <<"1",".","2">>
V_3_9 == <<"3",".","9">>
V_2_0 == <<"2",".","0">>

\* conda-style entries of a manifest's `dependencies:` list
CondaPool ==
    { Str(<<"n","p">>),
      Str(<<"N","p",">","=","1">>),
      Str(<<"c","f",":",":","n","p",">","=","1">>),
      Str(<<" ","c","f",":",":","N","p"," ">>),
      Str(<<":",":","n","p">>),
      Str(<<"p","y","t","h","o","n",">","=","3">>),
      Str(<<"c","f",":",":","P","y","t","h","o","n">>),
      Str(<<" ","p","y","t","h","o","n">>),
      Str(<<":",":","p","y","t","h","o","n","=","3">>),
      Str(<<"z","z",">","=","1">>),
      Str(<<" ","z","z"," ">>),
      Str(<<">","=","1">>),
      Str(<<"c","f",":",":"," ","n","p">>),
      Str(<<"a","_","b","=","1">>),
      PipDict(<<Str(<<"r","q">>)>>),
      Other }

\* installed-package mappings as build_conda_pkg_map returns them
CondaMaps ==
    { EmptyMap,
      S_np :> V_1_2,
      (S_np :> V_1_2) @@ (PYTHON :> V_3_9),
      (PYTHON :> V_3_9) @@ (<<"a","_","b">> :> V_2_0) }

\* entries of a `pip:` list
PipPool ==
    { Str(<<"r","q">>),
      Str(<<"r","q",">","=","2">>),
      Str(<<"r","q","[","x","]">>),
      Str(<<"r","q","[","x","]",">","=","2">>),
      Str(<<" ","R","q"," ">>),
      Str(<<"r","q","=","=","1">>),
      Str(<<" ","r","q","=","=","1"," ">>),
      Str(<<"r","q"," ","@"," ","u">>),
      Str(<<"\t","z","z","@","u">>),
      Str(<<"-","e"," ",".">>),
      Str(<<" ","-","e"," ",".">>),
      Str(<<"A","_",".","b">>),
      Str(<<"z","z">>),
      Str(<<" ","z","z",">","1"," ">>),
      Other }

\* freeze mappings as pip_freeze returns them
PipMaps ==
    { EmptyMap,
      S_rq :> V_2_0,
      (S_rq :> V_2_0) @@ (S_a_b :> V_1_2) }

NameAlphabet == {"a", "B", "-", "_", ".", " "}

ListsOver(P) == UNION {[1..n -> P] : n \in 0..MaxDeps}
Strings(A, n) == UNION {[1..k -> A] : k \in 0..n}

NoRet == [done |-> FALSE, list |-> <<>>, str |-> <<>>]

(***************************************************************************)
(* The pinner's run and the loader, at rest.                               *)
(***************************************************************************)
NoExit == [some |-> FALSE, v |-> 0]
Exit(n) == [some |-> TRUE, v |-> n]
NoError == [kind |-> "none", msg |-> "", cmd |-> "", stderr |-> ""]
NoFile == [state |-> "absent", deps |-> <<>>]
NoArgs == [env |-> NoneV, pin_pip |-> FALSE, keep_python_unpinned |-> FALSE,
           inplace |-> FALSE, lock_linux64 |-> FALSE]
NoData == [mapping |-> FALSE, name |-> NoneV, kind |-> "absent", deps |-> <<>>]

PinnerOff ==
    /\ pc = "off"
    /\ args = NoArgs
    /\ data = NoData
    /\ env_name = NoneV
    /\ conda_pkgs = EmptyMap
    /\ pip_pkgs = EmptyMap
    /\ pinned_deps = <<>>
    /\ fs = [p \in {"in", "out", "lock"} |-> NoFile]
    /\ cmds = <<>>
    /\ exit_code = NoExit
    /\ error = NoError
    /\ freeze_failed = FALSE

NoFrame == [columns |-> <<>>, labels |-> [kind |-> "none", list |-> <<>>, dict |-> EmptyMap]]
LoaderOff ==
    /\ lpc = "off"
    /\ data_file = [exists |-> FALSE, readable |-> FALSE, frame |-> NoFrame]
    /\ meta_dir = FALSE
    /\ columns_csv = [exists |-> FALSE, rows |-> <<>>]
    /\ df = NoFrame
    /\ labels_map = EmptyMap
    /\ lerror = "none"
    /\ fs0 = [meta_dir |-> FALSE, columns_csv |-> [exists |-> FALSE, rows |-> <<>>]]

(***************************************************************************)
(* SpecFn: one call of a pure helper on inputs drawn from the pools.       *)
(***************************************************************************)
Call(op, deps, pkgs, keep, name) ==
    [op |-> op, deps |-> deps, pkgs |-> pkgs, keep |-> keep, name |-> name]

InitFn ==
    /\ \/ \E d \in ListsOver(CondaPool), m \in CondaMaps, k \in BOOLEAN :
             call = Call("pin_conda_deps", d, m, k, <<>>)
       \/ \E d \in ListsOver(PipPool), m \in PipMaps :
             call = Call("pin_pip_deps", d, m, FALSE, <<>>)
       \/ \E x \in Strings(NameAlphabet, MaxNameLen) :
             call = Call("normalize_name", <<>>, EmptyMap, FALSE, x)
    /\ ret = NoRet
    /\ PinnerOff
    /\ LoaderOff

CallPinConda ==
    /\ call.op = "pin_conda_deps" /\ ~ret.done
    /\ ret' = [done |-> TRUE, list |-> pin_conda_deps(call.deps, call.pkgs, call.keep),
               str |-> <<>>]
    /\ UNCHANGED <<call, pinvars, loadvars>>

CallPinPip ==
    /\ call.op = "pin_pip_deps" /\ ~ret.done
    /\ ret' = [done |-> TRUE, list |-> pin_pip_deps(call.deps, call.pkgs), str |-> <<>>]
    /\ UNCHANGED <<call, pinvars, loadvars>>

CallNormalize ==
    /\ call.op = "normalize_name" /\ ~ret.done
    /\ ret' = [done |-> TRUE, list |-> <<>>, str |-> normalize_name(call.name)]
    /\ UNCHANGED <<call, pinvars, loadvars>>

NextFn == CallPinConda \/ CallPinPip \/ CallNormalize

SpecFn == InitFn /\ [][NextFn]_vars

(***************************************************************************)
(* External processes: run, conda list, pip freeze, conda-lock.            *)
(***************************************************************************)
\* What the environment answers when a command is spawned: `resolved` is whether
\* the executable was found (_resolve_conda_exe, shutil.which), rc/stdout/stderr
\* are subprocess.run's result.
Proc(resolved, rc, stdout, stderr) ==
    [resolved |-> resolved, rc |-> rc, stdout |-> stdout, stderr |-> stderr]

\* A slip: the return code never looked at (the result is always handed back).
run_unchecked(prog, proc) ==
    IF prog \in {"conda list", "pip freeze"} /\ ~proc.resolved
    THEN [ok |-> FALSE, spawned |-> FALSE, stdout |-> <<>>,
          error |-> [kind |-> "FileNotFoundError", msg |-> "conda not resolved",
                     cmd |-> "", stderr |-> ""]]
    ELSE [ok |-> TRUE, spawned |-> TRUE, stdout |-> proc.stdout, error |-> NoError]

\* run(cmd): the stdout of the command, or the exception raised.
run(prog, proc) ==
    IF prog \in {"conda list", "pip freeze"} /\ ~proc.resolved
    THEN [ok |-> FALSE, spawned |-> FALSE, stdout |-> <<>>,
          error |-> [kind |-> "FileNotFoundError", msg |-> "conda not resolved",
                     cmd |-> "", stderr |-> ""]]
    ELSE IF proc.rc # 0
    THEN [ok |-> FALSE, spawned |-> TRUE, stdout |-> <<>>,
          error |-> [kind |-> "RuntimeError", msg |-> "Command failed",
                     cmd |-> prog, stderr |-> proc.stderr]]
    ELSE [ok |-> TRUE, spawned |-> TRUE, stdout |-> proc.stdout, error |-> NoError]

\* {p["name"].lower(): p["version"] for p in pkgs if "name" in p and "version" in p}
RECURSIVE build_conda_pkg_map(_)
build_conda_pkg_map(pkgs) ==
    IF pkgs = <<>> THEN EmptyMap
    ELSE LET p == pkgs[Len(pkgs)]
             before == build_conda_pkg_map(SubSeq(pkgs, 1, Len(pkgs) - 1))
         IN IF p.has_name /\ p.has_version
            THEN (Lower(p.name) :> p.version) @@ before
            ELSE before

\* the loop of pip_freeze over out.splitlines()
RECURSIVE parse_freeze(_)
parse_freeze(lines) ==
    IF lines = <<>> THEN EmptyMap
    ELSE LET line == Strip(lines[Len(lines)])
             before == parse_freeze(SubSeq(lines, 1, Len(lines) - 1))
         IN IF line = <<>> \/ StartsWith(line, <<"#">>) THEN before
            ELSE IF Contains(line, EQEQ) /\ ~StartsWith(line, EDITABLE)
            THEN (normalize_name(SplitOnce(line, EQEQ)[1]) :> SplitOnce(line, EQEQ)[2])
                 @@ before
            ELSE before

\* pip_freeze: {} when run raised, the parsed mapping otherwise
pip_freeze(res) == IF ~res.ok THEN EmptyMap ELSE parse_freeze(res.stdout)

Pkg(name, version, has_name, has_version) ==
    [name |-> name, version |-> version, has_name |-> has_name, has_version |-> has_version]

\* outputs of `conda list --json`
CondaListings ==
    { <<>>,
      << Pkg(<<"N","p">>, V_1_2, TRUE, TRUE),
         Pkg(PYTHON, V_3_9, TRUE, TRUE),
         Pkg(S_zz, <<>>, TRUE, FALSE) >> }

\* outputs of `pip freeze`
FreezeOutputs ==
    { <<>>,
      << <<"#"," ","c">>,
         <<"R","q","=","=","2",".","0">>,
         <<>>,
         <<"-","e"," ","z","z","=","=","1">>,
         <<"z","z"," ","@"," ","u">> >> }

Stderrs == {"", "boom"}

(***************************************************************************)
(* main of pin_env_versions.py, one action per stage.                      *)
(***************************************************************************)
EnvNames == {NoneV, Some(<<>>), Some(<<"h","x">>)}

Manifests ==
    { << Str(<<"N","p",">","=","1">>),
         Str(<<"c","f",":",":","P","y","t","h","o","n">>),
         PipDict(<<Str(<<"r","q",">","=","2">>), Str(<<" ","z","z"," ">>)>>) >>,
      << Str(<<"z","z">>), Other >>,
      << PipDict(<<Str(<<"r","q","[","x","]">>), Other>>) >> }

ArgSets ==
    [env : EnvNames, pin_pip : BOOLEAN, keep_python_unpinned : BOOLEAN,
     inplace : BOOLEAN, lock_linux64 : BOOLEAN]

\* yaml.safe_load of the input file
DataSets ==
    {[mapping |-> m, name |-> n, kind |-> "list", deps |-> d] :
        m \in {TRUE}, n \in EnvNames, d \in Manifests}
    \cup
    {[mapping |-> m, name |-> n, kind |-> k, deps |-> <<>>] :
        m \in BOOLEAN, n \in EnvNames, k \in {"absent", "notlist"}}

InitialFs(d) ==
    [p \in {"in", "out", "lock"} |->
        IF p = "in" THEN [state |-> "original", deps |-> d.deps] ELSE NoFile]

Init ==
    /\ call = Call("none", <<>>, EmptyMap, FALSE, <<>>)
    /\ ret = NoRet
    /\ pc = "load"
    /\ args \in ArgSets
    /\ data \in DataSets
    /\ env_name = NoneV
    /\ conda_pkgs = EmptyMap
    /\ pip_pkgs = EmptyMap
    /\ pinned_deps = <<>>
    /\ fs = InitialFs(data)
    /\ cmds = <<>>
    /\ exit_code = NoExit
    /\ error = NoError
    /\ freeze_failed = FALSE
    /\ LoaderOff

Cmd(prog, file, proc) == [prog |-> prog, file |-> file, rc |-> proc.rc, stderr |-> proc.stderr]

\* an uncaught exception ends the process with status 1
Raise(e) ==
    /\ pc' = "exit"
    /\ exit_code' = Exit(1)
    /\ error' = e

Return(n) ==
    /\ pc' = "exit"
    /\ exit_code' = Exit(n)
    /\ error' = NoError

\* load_env_yml
Load ==
    /\ pc = "load"
    /\ IF ~data.mapping
       THEN Raise([kind |-> "ValueError", msg |-> "not a valid YAML mapping",
                   cmd |-> "", stderr |-> ""])
       ELSE pc' = "env" /\ UNCHANGED <<exit_code, error>>
    /\ UNCHANGED <<args, data, env_name, conda_pkgs, pip_pkgs, pinned_deps, fs, cmds,
                   freeze_failed, fnvars, loadvars>>

\* env_name = args.env or data.get("name")
DetermineEnv ==
    /\ pc = "env"
    /\ LET e == IF Truthy(args.env) THEN args.env ELSE data.name
       IN IF ~Truthy(e)
          THEN Return(2) /\ UNCHANGED env_name
          ELSE pc' = "deps" /\ env_name' = e /\ UNCHANGED <<exit_code, error>>
    /\ UNCHANGED <<args, data, conda_pkgs, pip_pkgs, pinned_deps, fs, cmds,
                   freeze_failed, fnvars, loadvars>>

\* A slip: the `dependencies` check left out.
RequireDepsUnchecked ==
    /\ pc = "deps"
    /\ pc' = "conda_list"
    /\ UNCHANGED <<exit_code, error, args, data, env_name, conda_pkgs, pip_pkgs,
                   pinned_deps, fs, cmds, freeze_failed, fnvars, loadvars>>

\* deps = data.get("dependencies"); must be a list
RequireDeps ==
    /\ pc = "deps"
    /\ IF data.kind # "list"
       THEN Return(2)
       ELSE pc' = "conda_list" /\ UNCHANGED <<exit_code, error>>
    /\ UNCHANGED <<args, data, env_name, conda_pkgs, pip_pkgs, pinned_deps, fs, cmds,
                   freeze_failed, fnvars, loadvars>>

\* conda_pkgs = build_conda_pkg_map(env_name)
BuildCondaPkgMap ==
    /\ pc = "conda_list"
    /\ \E resolved \in BOOLEAN, rc \in {0, 1}, out \in CondaListings, err \in Stderrs :
         LET proc == Proc(resolved, rc, out, err)
             res == run("conda list", proc)
         IN /\ cmds' = IF res.spawned THEN Append(cmds, Cmd("conda list", "", proc)) ELSE cmds
            /\ IF res.ok
               THEN /\ conda_pkgs' = build_conda_pkg_map(res.stdout)
                    /\ pc' = "pin"
                    /\ UNCHANGED <<exit_code, error>>
               ELSE Raise(res.error) /\ UNCHANGED conda_pkgs
    /\ UNCHANGED <<args, data, env_name, pip_pkgs, pinned_deps, fs, freeze_failed,
                   fnvars, loadvars>>

\* pinned_deps = pin_conda_deps(deps, conda_pkgs, keep_python_unpinned=...)
PinConda ==
    /\ pc = "pin"
    /\ pinned_deps' = pin_conda_deps(data.deps, conda_pkgs, args.keep_python_unpinned)
    /\ pc' = "pip"
    /\ UNCHANGED <<args, data, env_name, conda_pkgs, pip_pkgs, fs, cmds, exit_code, error,
                   freeze_failed, fnvars, loadvars>>

\* the loop of main over pinned_deps that rewrites each `pip:` list
UpdatePipSections(deps, pkgs) ==
    [i \in 1..Len(deps) |->
        IF deps[i].t = "pipdict"
        THEN PipDict(pin_pip_deps(deps[i].pip, pkgs))
        ELSE deps[i]]

\* A slip: no try/except around the freeze command.
PinPipPropagating ==
    /\ pc = "pip"
    /\ IF ~args.pin_pip
       THEN /\ pc' = "write"
            /\ UNCHANGED <<pip_pkgs, pinned_deps, cmds, freeze_failed, exit_code, error>>
       ELSE \E resolved \in BOOLEAN, rc \in {0, 1}, out \in FreezeOutputs, err \in Stderrs :
              LET proc == Proc(resolved, rc, out, err)
                  res == run("pip freeze", proc)
              IN /\ cmds' = IF res.spawned
                            THEN Append(cmds, Cmd("pip freeze", "", proc)) ELSE cmds
                 /\ freeze_failed' = ~res.ok
                 /\ IF res.ok
                    THEN /\ pip_pkgs' = pip_freeze(res)
                         /\ pinned_deps' = UpdatePipSections(pinned_deps, pip_pkgs')
                         /\ pc' = "write"
                         /\ UNCHANGED <<exit_code, error>>
                    ELSE Raise(res.error) /\ UNCHANGED <<pip_pkgs, pinned_deps>>
    /\ UNCHANGED <<args, data, env_name, conda_pkgs, fs, fnvars, loadvars>>

\* if args.pin_pip: pip_pkgs = pip_freeze(env_name); rewrite every `pip:` list
PinPip ==
    /\ pc = "pip"
    /\ IF ~args.pin_pip
       THEN UNCHANGED <<pip_pkgs, pinned_deps, cmds, freeze_failed>>
       ELSE \E resolved \in BOOLEAN, rc \in {0, 1}, out \in FreezeOutputs, err \in Stderrs :
              LET proc == Proc(resolved, rc, out, err)
                  res == run("pip freeze", proc)
              IN /\ cmds' = IF res.spawned
                            THEN Append(cmds, Cmd("pip freeze", "", proc)) ELSE cmds
                 /\ freeze_failed' = ~res.ok
                 /\ pip_pkgs' = pip_freeze(res)
                 /\ pinned_deps' = UpdatePipSections(pinned_deps, pip_pkgs')
    /\ pc' = "write"
    /\ UNCHANGED <<args, data, env_name, conda_pkgs, fs, exit_code, error, fnvars, loadvars>>

\* A slip: --inplace ignored.
OutPathAlwaysOutput == "out"

\* out_path = in_path if args.inplace else Path(args.output)
OutPath == IF args.inplace THEN "in" ELSE "out"

\* out_path.write_text(yaml.safe_dump(out_data, sort_keys=False))
Write ==
    /\ pc = "write"
    /\ fs' = [fs EXCEPT ![OutPath] = [state |-> "pinned", deps |-> pinned_deps]]
    /\ pc' = "lock"
    /\ UNCHANGED <<args, data, env_name, conda_pkgs, pip_pkgs, pinned_deps, cmds, exit_code,
                   error, freeze_failed, fnvars, loadvars>>

\* if args.lock_linux64: run_conda_lock_linux64(out_path, lock_output); return 0
Lock ==
    /\ pc = "lock"
    /\ IF ~args.lock_linux64
       THEN Return(0) /\ UNCHANGED <<fs, cmds>>
       ELSE \E on_path \in BOOLEAN, rc \in {0, 1}, err \in Stderrs :
              LET proc == Proc(on_path, rc, <<>>, err)
                  res == run("conda-lock", proc)
              IN IF ~on_path
                 THEN /\ Raise([kind |-> "RuntimeError", msg |-> "conda-lock not found",
                                cmd |-> "", stderr |-> ""])
                      /\ UNCHANGED <<fs, cmds>>
                 ELSE /\ cmds' = Append(cmds, Cmd("conda-lock", OutPath, proc))
                      /\ IF res.ok
                         THEN /\ fs' = [fs EXCEPT !["lock"] =
                                          [state |-> "lock", deps |-> fs[OutPath].deps]]
                              /\ Return(0)
                         ELSE Raise(res.error) /\ UNCHANGED fs
    /\ UNCHANGED <<args, data, env_name, conda_pkgs, pip_pkgs, pinned_deps, freeze_failed,
                   fnvars, loadvars>>

Next == Load \/ DetermineEnv \/ RequireDeps \/ BuildCondaPkgMap \/ PinConda \/ PinPip
        \/ Write \/ Lock

Spec == Init /\ [][Next]_vars

(***************************************************************************)
(* main of src/read_data.py, one action per stage.                         *)
(***************************************************************************)
ColumnLists == {<<>>, <<"A">>, <<"B">>, <<"A", "B">>, <<"B", "A">>}
\* meta.column_labels: missing/None, a dict, or a list
ColumnLabels ==
    {[kind |-> "none", list |-> <<>>, dict |-> EmptyMap]}
    \cup {[kind |-> "dict", list |-> <<>>, dict |-> d] : d \in {EmptyMap, "A" :> "la"}}
    \cup {[kind |-> "list", list |-> l, dict |-> EmptyMap] :
             l \in {<<>>, <<"la">>, <<"la", "lb">>}}
Frames == [columns : ColumnLists, labels : ColumnLabels]
NoCsv == [exists |-> FALSE, rows |-> <<>>]

InitLoader ==
    /\ call = Call("none", <<>>, EmptyMap, FALSE, <<>>)
    /\ ret = NoRet
    /\ PinnerOff
    /\ lpc = "check"
    /\ data_file \in [exists : BOOLEAN, readable : BOOLEAN, frame : Frames]
    /\ meta_dir \in BOOLEAN
    /\ columns_csv \in {NoCsv, [exists |-> TRUE, rows |-> <<[column_name |-> "OLD", label |-> ""]>>]}
    /\ columns_csv.exists => meta_dir
    /\ df = NoFrame
    /\ labels_map = EmptyMap
    /\ lerror = "none"
    /\ fs0 = [meta_dir |-> meta_dir, columns_csv |-> columns_csv]

\* A slip: the output directory made before the input is looked for.
LoaderCheckMkdirFirst ==
    /\ lpc = "check"
    /\ meta_dir' = TRUE
    /\ IF ~data_file.exists
       THEN lpc' = "raised" /\ lerror' = "FileNotFoundError"
       ELSE lpc' = "read" /\ UNCHANGED lerror
    /\ UNCHANGED <<data_file, columns_csv, df, labels_map, fs0, fnvars, pinvars>>

\* if not DATA_PATH.exists(): raise FileNotFoundError
LoaderCheck ==
    /\ lpc = "check"
    /\ IF ~data_file.exists
       THEN lpc' = "raised" /\ lerror' = "FileNotFoundError"
       ELSE lpc' = "read" /\ UNCHANGED lerror
    /\ UNCHANGED <<data_file, meta_dir, columns_csv, df, labels_map, fs0, fnvars, pinvars>>

\* df, meta = pyreadstat.read_xport(...)
LoaderRead ==
    /\ lpc = "read"
    /\ IF ~data_file.readable
       THEN lpc' = "raised" /\ lerror' = "ReadError" /\ UNCHANGED df
       ELSE lpc' = "mkdir" /\ df' = data_file.frame /\ UNCHANGED lerror
    /\ UNCHANGED <<data_file, meta_dir, columns_csv, labels_map, fs0, fnvars, pinvars>>

\* COLUMNS_OUT_PATH.parent.mkdir(parents=True, exist_ok=True)
LoaderMkdir ==
    /\ lpc = "mkdir"
    /\ meta_dir' = TRUE
    /\ lpc' = "labels"
    /\ UNCHANGED <<data_file, columns_csv, df, labels_map, lerror, fs0, fnvars, pinvars>>

\* dict(zip(df.columns, meta.column_labels))
Zip(cols, labels) == [c \in {cols[i] : i \in 1..Len(cols)} |->
                        labels[CHOOSE i \in 1..Len(cols) :
                                 cols[i] = c /\ \A j \in (i + 1)..Len(cols) : cols[j] # c]]

\* the {column_name: label} mapping built from meta.column_labels
LoaderLabels ==
    /\ lpc = "labels"
    /\ labels_map' =
         IF df.labels.kind = "dict" THEN df.labels.dict
         ELSE IF df.labels.kind = "list" /\ Len(df.labels.list) = Len(df.columns)
         THEN Zip(df.columns, df.labels.list)
         ELSE EmptyMap
    /\ lpc' = "write"
    /\ UNCHANGED <<data_file, meta_dir, columns_csv, df, lerror, fs0, fnvars, pinvars>>

\* cols_df.to_csv(COLUMNS_OUT_PATH, index=False)
LoaderWrite ==
    /\ lpc = "write"
    /\ columns_csv' =
         [exists |-> TRUE,
          rows |-> [i \in 1..Len(df.columns) |->
                      [column_name |-> df.columns[i],
                       label |-> IF df.columns[i] \in DOMAIN labels_map
                                 THEN labels_map[df.columns[i]] ELSE ""]]]
    /\ lpc' = "done"
    /\ UNCHANGED <<data_file, meta_dir, df, labels_map, lerror, fs0, fnvars, pinvars>>

NextLoader == LoaderCheck \/ LoaderRead \/ LoaderMkdir \/ LoaderLabels \/ LoaderWrite

SpecLoader == InitLoader /\ [][NextLoader]_vars

(***************************************************************************)
(* Properties of the pure helpers (checked under SpecFn).                  *)
(***************************************************************************)
\* The ways a stripped entry s reads as [channel::]name<rest>: the channel is
\* what precedes the first "::" (i = 0: no "::" at all), the name the longest run
\* of name characters that follows it.
Readings(s0) ==
    LET s == Strip(s0)
    IN { r \in [i : 0..Len(s), j : 1..Len(s)] :
           /\ r.i < r.j
           /\ \/ r.i = 0 /\ ~Contains(s, COLONS)
              \/ r.i >= 2 /\ Find(s, COLONS) = r.i - 1
           /\ \A k \in (r.i + 1)..r.j : IsNameChar(s[k])
           /\ r.j = Len(s) \/ ~IsNameChar(s[r.j + 1]) }
ReadName(s0, r) == SubSeq(Strip(s0), r.i + 1, r.j)
\* the channel prefix as written, "::" included (<<>> when the entry has none)
ReadPrefix(s0, r) == SubSeq(Strip(s0), 1, r.i)
Resolvable(s0, pkgs) ==
    {r \in Readings(s0) : Lower(ReadName(s0, r)) \in DOMAIN pkgs}
NamesPython(s0) == \E r \in Readings(s0) : Lower(ReadName(s0, r)) = PYTHON

PinnedAs(s0, r, prefix, pkgs, keep) ==
    IF keep /\ Lower(ReadName(s0, r)) = PYTHON
    THEN Str(prefix \o PYTHON)
    ELSE Str(prefix \o ReadName(s0, r) \o <<"=">> \o pkgs[Lower(ReadName(s0, r))])

CondaDone == ret.done /\ call.op = "pin_conda_deps"
PipDone == ret.done /\ call.op = "pin_pip_deps"

C2_UnmatchedIdentical ==
    CondaDone =>
        \A p \in 1..Len(call.deps) :
           (IsStr(call.deps[p]) /\ Resolvable(call.deps[p].s, call.pkgs) = {})
              => ret.list[p] = call.deps[p]

\* C2 amended: ... unless keep_python_unpinned is set and the entry names python.
C2_UnmatchedIdenticalUnlessPython ==
    CondaDone =>
        \A p \in 1..Len(call.deps) :
           ( /\ IsStr(call.deps[p])
             /\ Resolvable(call.deps[p].s, call.pkgs) = {}
             /\ ~(call.keep /\ NamesPython(call.deps[p].s)) )
              => ret.list[p] = call.deps[p]

C2_Witness ==
    /\ CondaDone
    /\ call.keep
    /\ Len(call.deps) = 2
    /\ call.deps[2] = Str(<<" ","z","z"," ">>)
    /\ ret.list[2] = Str(<<" ","z","z"," ">>)
    /\ call.deps[1] = Str(<<"N","p",">","=","1">>)
    /\ ret.list[1] # call.deps[1]

\* C3: a pip entry that contains "==" or "@", or starts with "-e ", is output
\* character for character as it was given.
C3_AlreadyPinnedNoOp ==
    PipDone =>
        \A p \in 1..Len(call.deps) :
           ( /\ IsStr(call.deps[p])
             /\ \/ Contains(call.deps[p].s, EQEQ)
                \/ Contains(call.deps[p].s, AT)
                \/ StartsWith(call.deps[p].s, EDITABLE) )
              => ret.list[p] = call.deps[p]

\* the bracketed extras that directly follow the name, <<>> when there are none
BracketExtras(rest) ==
    IF rest # <<>> /\ Head(rest) = "[" /\ Contains(rest, <<"]">>)
    THEN SubSeq(rest, 1, Find(rest, <<"]">>))
    ELSE <<>>

\* C6: a pip entry with no "==", no "@" and no editable marker, whose normalized
\* name is in the freeze mapping, is output as name[extras]==version and
\* nothing else of the original entry.
C6_RewrittenToExactPin ==
    PipDone =>
        \A p \in 1..Len(call.deps) :
           LET s == Strip(call.deps[p].s)
               name == NamePrefix(s)
               extras == BracketExtras(SubSeq(s, Len(name) + 1, Len(s)))
           IN ( /\ IsStr(call.deps[p])
                /\ ~Contains(s, EQEQ) /\ ~Contains(s, AT) /\ ~StartsWith(s, EDITABLE)
                /\ normalize_name(name) \in DOMAIN call.pkgs )
                 => ret.list[p] =
                      Str(name \o extras \o EQEQ \o call.pkgs[normalize_name(name)])

\* C8: normalize_name is idempotent, and its result is in normal form: no upper
\* case, no "_" or ".", no two separators in a row, no surrounding whitespace.
C8_NormalizeIdempotent ==
    (ret.done /\ call.op = "normalize_name") =>
        /\ normalize_name(ret.str) = ret.str
        /\ \A i \in 1..Len(ret.str) :
             /\ ret.str[i] \notin UpperSet \cup {"_", "."}
             /\ i > 1 => ~(ret.str[i] = "-" /\ ret.str[i - 1] = "-")
        /\ ret.str # <<>> => (Head(ret.str) \notin Whitespace
                              /\ ret.str[Len(ret.str)] \notin Whitespace)

C8_Witness ==
    /\ ret.done /\ call.op = "normalize_name"
    /\ call.name = <<" ","B",".","_">>
    /\ ret.str = <<"b","-">>

(***************************************************************************)
(* Properties of a pinner run (checked under Spec).                        *)
(***************************************************************************)
NoEnvName == ~Truthy(args.env) /\ ~Truthy(data.name)
\* the path the pinned manifest goes to: the input in in-place mode
PinnedPath == IF args.inplace THEN "in" ELSE "out"
LockFailed ==
    /\ pc = "exit"
    /\ \/ error.msg = "conda-lock not found"
       \/ error.msg = "Command failed" /\ error.cmd = "conda-lock"

\* C4: a loaded manifest with no `dependencies` list, or no environment name to
\* be had, ends the run with exit code 2, no file written and no command run.
C4_InvalidManifestExits2 ==
    (data.mapping /\ (data.kind # "list" \/ NoEnvName)) =>
        /\ pc \in {"load", "env", "deps", "exit"}
        /\ cmds = <<>>
        /\ fs = InitialFs(data)
        /\ pc = "exit" => (exit_code = Exit(2) /\ error = NoError)
        /\ pc # "exit" => ENABLED Next

C4_Witness ==
    /\ pc = "exit"
    /\ exit_code = Exit(2)
    /\ data.kind = "absent"
    /\ Truthy(args.env)
    /\ args.pin_pip /\ args.lock_linux64

\* C5 as stated: after any command returned non-zero the run has ended with the
\* error that carries the command and its stderr, and never with exit code 0.
C5_AnyFailureFatal ==
    \A i \in 1..Len(cmds) :
       (cmds[i].rc # 0 /\ pc = "exit") =>
          /\ exit_code.v # 0
          /\ error = [kind |-> "RuntimeError", msg |-> "Command failed",
                      cmd |-> cmds[i].prog, stderr |-> cmds[i].stderr]

\* C5 amended: so for the listing command and the lock-file generator; a failure
\* of the freeze command is not raised.
C5_FailureFatalExceptFreeze ==
    \A i \in 1..Len(cmds) :
       (cmds[i].rc # 0 /\ cmds[i].prog # "pip freeze") =>
          /\ pc = "exit"
          /\ i = Len(cmds)
          /\ exit_code.some /\ exit_code.v # 0
          /\ error = [kind |-> "RuntimeError", msg |-> "Command failed",
                      cmd |-> cmds[i].prog, stderr |-> cmds[i].stderr]

C5_Witness ==
    /\ pc = "exit"
    /\ Len(cmds) = 3
    /\ cmds[2].prog = "pip freeze" /\ cmds[2].rc = 0
    /\ cmds[3].prog = "conda-lock" /\ cmds[3].rc # 0 /\ cmds[3].stderr = "boom"
    /\ exit_code = Exit(1)

\* C7: when the freeze command cannot be run or fails, pip_freeze yields {} and
\* the run goes on: no pip entry gains a pin, the manifest is written, and the
\* run ends with exit code 0 unless the lock step fails.
C7_FreezeFailureTolerated ==
    freeze_failed =>
        /\ args.pin_pip
        /\ pip_pkgs = EmptyMap
        /\ pc \in {"write", "lock", "exit"}
        /\ Len(pinned_deps) = Len(data.deps)
        /\ \A i \in 1..Len(data.deps) :
             data.deps[i].t = "pipdict" =>
                /\ pinned_deps[i].t = "pipdict"
                /\ Len(pinned_deps[i].pip) = Len(data.deps[i].pip)
                /\ \A j \in 1..Len(data.deps[i].pip) :
                     pinned_deps[i].pip[j] =
                        IF IsStr(data.deps[i].pip[j])
                        THEN Str(Strip(data.deps[i].pip[j].s))
                        ELSE data.deps[i].pip[j]
        /\ pc \in {"lock", "exit"} =>
              fs[PinnedPath] = [state |-> "pinned", deps |-> pinned_deps]
        /\ pc = "exit" => (exit_code = Exit(0) \/ LockFailed)
        /\ (pc = "exit" /\ ~args.lock_linux64) => exit_code = Exit(0)

C7_Witness ==
    /\ freeze_failed
    /\ pc = "exit"
    /\ exit_code = Exit(0)
    /\ Len(cmds) = 3 /\ cmds[2].prog = "pip freeze" /\ cmds[2].rc # 0
    /\ fs["out"].state = "pinned"
    /\ Len(fs["out"].deps) = 3
    /\ fs["out"].deps[3] = PipDict(<<Str(<<"r","q",">","=","2">>), Str(<<"z","z">>)>>)

\* C10: conda-lock is run only when asked for, only once the pinned manifest is
\* on disk, and on that very path; when it is missing or fails the run ends with
\* an error and the pinned manifest stays written.
C10_LockState ==
    /\ \A i \in 1..Len(cmds) :
          cmds[i].prog = "conda-lock" =>
             /\ args.lock_linux64
             /\ cmds[i].file = PinnedPath
             /\ fs[PinnedPath] = [state |-> "pinned", deps |-> pinned_deps]
    /\ LockFailed =>
          /\ args.lock_linux64
          /\ exit_code = Exit(1)
          /\ fs[PinnedPath] = [state |-> "pinned", deps |-> pinned_deps]
          /\ fs["lock"] = NoFile
C10_LockStep ==
    (Len(cmds') > Len(cmds) /\ cmds'[Len(cmds')].prog = "conda-lock") =>
        /\ fs[PinnedPath] = [state |-> "pinned", deps |-> pinned_deps]
        /\ \A p \in {"in", "out"} : fs'[p] = fs[p]
\* C10: the state part holds always, the step part of every step that runs conda-lock.
C10_LockAfterWrite == [](C10_LockState) /\ [][C10_LockStep]_vars

C10_Witness ==
    /\ LockFailed
    /\ args.inplace
    /\ Len(cmds) > 0 /\ cmds[Len(cmds)].prog = "conda-lock" /\ cmds[Len(cmds)].file = "in"
    /\ fs["in"].state = "pinned"
    /\ fs["in"].deps # data.deps

(***************************************************************************)
(* Properties of a loader run (checked under SpecLoader).                  *)
(***************************************************************************)
\* C9: with the input data file absent, main raises FileNotFoundError and neither
\* the output directory nor the column CSV is created or written.
C9_AbsentInputNoOutput ==
    ~data_file.exists =>
        /\ lpc \in {"check", "raised"}
        /\ lpc = "raised" => lerror = "FileNotFoundError"
        /\ meta_dir = fs0.meta_dir
        /\ columns_csv = fs0.columns_csv
        /\ lpc = "check" => ENABLED NextLoader

C9_Witness ==
    /\ ~data_file.exists
    /\ lpc = "raised"
    /\ lerror = "FileNotFoundError"
    /\ ~meta_dir
    /\ ~columns_csv.exists

====
